---- MODULE Spec2Model ----
(***************************************************************************)
(* Model of the vegetation unmixing engine of Core_Function.py:            *)
(*   - unmix_pixel / get_precalc as operators over exact fixed-point       *)
(*     arithmetic (numbers are integers counting hundredths, fractions     *)
(*     are rationals n/d, rounded results count thousandths);              *)
(*   - execute_unmixing_with_landuse / batch_unmix / process_row_enhanced  *)
(*     as a state machine of the dispatching process, the worker pool,     *)
(*     the shared-memory segments and the output raster.                   *)
(* The specifications share the variables:                                 *)
(*   Spec      : one run of the entry point (or of batch_unmix directly);  *)
(*   SpecPixel : one evaluation of unmix_pixel on a grid of samples;       *)
(*   SpecIndex : one evaluation of the NDVI and SWIR32 ratios of a pixel.  *)
(***************************************************************************)
EXTENDS Integers, Sequences, FiniteSets, TLC

VARIABLES
    px,          \* the pixel evaluation of SpecPixel: sample, endmembers, outcome
    pc,          \* position of the dispatching process
    entry,       \* "execute" (execute_unmixing_with_landuse) or "batch" (batch_unmix called directly)
    err,         \* kind of the exception travelling to the caller, "none" if none
    inp,         \* the inputs read so far: shapes, land-use tile, selected values, endmembers
    precalc,     \* precalc_forest / precalc_nonforest, "unset" before get_precalc
    precalcCalls,\* number of get_precalc calls per endmember set
    seg,         \* the three shared-memory segments as the dispatcher sees them
    pool,        \* the worker pool: state, size, task queue, workers, chunk results
                 \* (res), the chunks in the order they completed (done), row results
    agg,         \* the aggregation loop: position in the imap iterator, output array
    outFile,     \* the output raster at output_path: created?, bands written
    used,        \* per processed pixel, the term set the worker unmixed it with
    host,        \* the machine of the run: sys.platform, mp.cpu_count(), and whether
                 \* a worker has called unlink() on the segments
    ix           \* the index evaluation of SpecIndex: band values, ndvi, swir32

vars == <<px, ix, pc, entry, err, inp, precalc, precalcCalls, seg, pool, agg, outFile, used, host>>

runVars == <<pc, entry, err, inp, precalc, precalcCalls, seg, pool, agg, outFile, used, host>>

-----------------------------------------------------------------------------
(* Fixed-point arithmetic *)

\* One unit of a band value or endmember coordinate is 1/Unit.
Unit == 10 ^ 2

\* np.round(..., 3): results count thousandths.
RoundDecimals == 3

Milli == 10 ^ RoundDecimals

Dot(u, v) == u[1] * v[1] + u[2] * v[2]

Sub(u, v) == <<u[1] - v[1], u[2] - v[2]>>

\* A plausible slip: truncation instead of rounding to nearest.
np_round_truncating(n, d) == (n * Milli) \div d

\* np.round(n/d, 3) for a rational n/d with d > 0, in thousandths:
\* round to nearest, ties to the even neighbour.
np_round(n, d) ==
    LET q == (n * Milli) \div d
        r == (n * Milli) % d
    IN  IF 2 * r < d THEN q
        ELSE IF 2 * r > d THEN q + 1
        ELSE IF q % 2 = 0 THEN q ELSE q + 1

-----------------------------------------------------------------------------
(* Endmember sets and get_precalc *)

\* E is a 2 x 3 matrix: E[f][k] is feature f of endmember k-1 (E[:, k-1]).
E_forest_default == << <<85, 32, 11>>, <<74, 105, 51>> >>

E_nonforest_default == << <<72, 25, 11>>, <<74, 105, 51>> >>

\* A caller-supplied set whose first two endmembers coincide (C = 0).
E_degenerate == << <<50, 50, 11>>, <<80, 80, 51>> >>

\* A caller-supplied array with only two columns: E[:, 2] raises IndexError.
E_malformed == << <<85, 32>>, <<74, 105>> >>

EndmemberSets == {E_forest_default, E_nonforest_default, E_degenerate}

WellFormed(E) == Len(E) = 2 /\ Len(E[1]) = 3 /\ Len(E[2]) = 3

Col(E, k) == <<E[1][k], E[2][k]>>

\* get_precalc(E); A is kept as its two columns (e0 - e2, e1 - e2).
get_precalc(E) ==
    [A  |-> <<Sub(Col(E, 1), Col(E, 3)), Sub(Col(E, 2), Col(E, 3))>>,
     E3 |-> Col(E, 3),
     E2 |-> Col(E, 2),
     C  |-> Sub(Col(E, 1), Col(E, 2)),
     C_squared |-> Dot(Sub(Col(E, 1), Col(E, 2)), Sub(Col(E, 1), Col(E, 2)))]

-----------------------------------------------------------------------------
(* lsq_linear(A, b, bounds=(0, inf)) for two unknowns *)

\* A solution (x, y) = (xn/d, yn/d) with d > 0.
Sol(xn, yn, d) == IF d < 0 THEN [xn |-> -xn, yn |-> -yn, d |-> -d]
                  ELSE [xn |-> xn, yn |-> yn, d |-> d]

Max0(v) == IF v > 0 THEN v ELSE 0

\* The minimisers of |A z - b|^2 over z >= 0 the solver can return.
\*  - A of full rank: the unique minimiser, the unconstrained solution when
\*    it is feasible and otherwise the Kuhn-Tucker point on an axis;
\*  - equal columns (e0 = e1): every z >= 0 with x + y = s minimises; the
\*    solver returns one of them (the ends and the middle are enumerated).
lsq_linear(A, b) ==
    LET a1 == A[1]
        a2 == A[2]
        det == a1[1] * a2[2] - a2[1] * a1[2]
        G11 == Dot(a1, a1)
        G12 == Dot(a1, a2)
        G22 == Dot(a2, a2)
        c1 == Dot(a1, b)
        c2 == Dot(a2, b)
        free == Sol(b[1] * a2[2] - a2[1] * b[2], a1[1] * b[2] - a1[2] * b[1], det)
    IN  IF det # 0
        THEN IF free.xn >= 0 /\ free.yn >= 0 THEN {free}
             ELSE IF G12 * Max0(c1) - c2 * G11 >= 0
                  THEN {Sol(Max0(c1), 0, G11)}
                  ELSE {Sol(0, Max0(c2), G22)}
        ELSE {Sol(Max0(c1), 0, G11), Sol(0, Max0(c1), G11),
              Sol(Max0(c1), Max0(c1), 2 * G11)}

-----------------------------------------------------------------------------
(* unmix_pixel *)

\* denominator >= 1e-10: denominators count 1/Unit^2 = 1e-4, so on this grid
\* the only value below 1e-10 is 0.
AtLeastEps(denominator) == denominator >= 1

\* A slip: the guard dropped, the quotient always evaluated (0/0 is nan,
\* min(1.0, nan) is 1.0).
x_clamped_unguarded(C, d, denominator) ==
    [divided |-> TRUE,
     n |-> IF denominator = 0 THEN 1
           ELSE IF -Dot(C, d) <= 0 THEN 0
           ELSE IF -Dot(C, d) >= denominator THEN denominator ELSE -Dot(C, d),
     d |-> IF denominator = 0 THEN 1 ELSE denominator]

\* max(0.0, min(1.0, -(C @ d) / denominator)) if denominator >= 1e-10 else 0.5
\* as the rational n/d, with whether the division was evaluated.
x_clamped(C, d, denominator) ==
    IF AtLeastEps(denominator)
    THEN [divided |-> TRUE,
          n |-> IF -Dot(C, d) <= 0 THEN 0
                ELSE IF -Dot(C, d) >= denominator THEN denominator ELSE -Dot(C, d),
          d |-> denominator]
    ELSE [divided |-> FALSE, n |-> 1, d |-> 2]

\* A slip: the branch test made tolerant, f3 >= -0.01 taken as non-negative.
unmix_from_tolerant(z, m, terms) ==
    LET f3n == z.d - z.xn - z.yn
    IN  IF 100 * f3n >= -z.d
        THEN [res |-> <<np_round(z.xn, z.d), np_round(z.yn, z.d), np_round(f3n, z.d)>>,
              branch |-> "interior", divided |-> FALSE]
        ELSE LET xc == x_clamped(terms.C, Sub(terms.E2, m), terms.C_squared)
             IN  [res |-> <<np_round(xc.n, xc.d), np_round(xc.d - xc.n, xc.d), 0>>,
                  branch |-> "boundary", divided |-> xc.divided]

\* The body of unmix_pixel after the solver returned z = res.x.
unmix_from(z, m, terms) ==
    LET f3n == z.d - z.xn - z.yn
    IN  IF f3n >= 0
        THEN [res |-> <<np_round(z.xn, z.d), np_round(z.yn, z.d), np_round(f3n, z.d)>>,
              branch |-> "interior", divided |-> FALSE]
        ELSE LET xc == x_clamped(terms.C, Sub(terms.E2, m), terms.C_squared)
             IN  [res |-> <<np_round(xc.n, xc.d), np_round(xc.d - xc.n, xc.d), 0>>,
                  branch |-> "boundary", divided |-> xc.divided]

\* unmix_pixel(m, E, precalc): the outcomes over the solver's possible results.
unmix_pixel(m, terms) ==
    { unmix_from(z, m, terms) : z \in lsq_linear(terms.A, Sub(m, terms.E3)) }

-----------------------------------------------------------------------------
(* SpecPixel: one call of unmix_pixel on a grid of samples *)

\* Samples are (m1, m2) = (k1, k2) * GridStep / Unit with |k1| <= GridMax,
\* 0 <= k2 <= 2 * GridMax.
GridStep == 5

GridMax == 20

Samples == { <<k1 * GridStep, k2 * GridStep>> : k1 \in -GridMax..GridMax, k2 \in 0..(2 * GridMax) }

NoOutcome == [res |-> <<0, 0, 0>>, branch |-> "none", divided |-> FALSE]

PxIdle == [pc |-> "idle", m |-> <<0, 0>>, E |-> E_forest_default, out |-> NoOutcome]

\* precalc = get_precalc(E); unmix_pixel(m, E, precalc)
UnmixPixelCall ==
    /\ px.pc = "ready"
    /\ \E o \in unmix_pixel(px.m, get_precalc(px.E)) :
           px' = [px EXCEPT !.pc = "done", !.out = o]
    /\ UNCHANGED <<ix, runVars>>

-----------------------------------------------------------------------------
(* SpecIndex: the NDVI and SWIR32 ratios of compute_user_selected_ndvi_swir32 *)

\* Band values of one pixel range over -MaxDN..MaxDN.
MaxDN == 2

\* A float32 value: nan, or the rational n/d with d # 0.
Num(n, d) == [nan |-> FALSE, n |-> n, d |-> d]

NaN == [nan |-> TRUE, n |-> 0, d |-> 1]

\* np.divide(num, den, out=np.zeros_like(den), where=den != 0) at one pixel:
\* the quotient where den != 0, the untouched element of out (0) elsewhere.
masked_divide(num, den) == IF den # 0 THEN Num(num, den) ELSE Num(0, 1)

IxIdle == [pc |-> "idle", nir |-> 0, red |-> 0, swir3 |-> 0, swir2 |-> 0,
           ndvi |-> Num(0, 1), swir32 |-> Num(0, 1)]

\* denominator_ndvi = nir + red; ndvi = np.divide(nir - red, denominator_ndvi, ...);
\* swir32 = np.divide(swir3, swir2, ...)
ComputeIndices ==
    /\ ix.pc = "ready"
    /\ LET denominator_ndvi == ix.nir + ix.red
       IN  ix' = [ix EXCEPT !.pc = "done",
                            !.ndvi = masked_divide(ix.nir - ix.red, denominator_ndvi),
                            !.swir32 = masked_divide(ix.swir3, ix.swir2)]
    /\ UNCHANGED <<px, runVars>>

-----------------------------------------------------------------------------
(* Inputs of a run *)

\* Largest image height and width, band count and core count explored.
MaxH == 11

MaxW == 2

MaxBands == 4

MaxCpu == 4

\* pool.imap(process_row_enhanced, args, chunksize=10)
ChunkSize == 10

SegNames == {"band1", "band2", "land_use"}

\* The test rasters repeat the 2 x 2 example image (band values in 1/Unit).
ndvi_tile == << <<80, 70>>, <<75, 60>> >>

swir32_tile == << <<30, 100>>, <<20, 90>> >>

land_use_tile == << <<1, 2>>, <<1, 2>> >>

TileAt(tile, r, c) == tile[(r % 2) + 1][(c % 2) + 1]

SelectedChoices == {{1}, {2}}

\* (E_forest, E_nonforest) as the caller passes them.
EndmemberArgs == { <<E_forest_default, E_nonforest_default>>,
                   <<E_forest_default, E_malformed>>,
                   <<E_malformed, E_nonforest_default>> }

Shapes == { <<h, w>> : h \in 1..MaxH, w \in 1..MaxW }

Rows(shape) == shape[1]

Cols(shape) == shape[2]

\* array.nbytes / itemsize (float32 and int32 both take 4 bytes)
NumElems(shape) == shape[1] * shape[2]

\* Shapes another array of the same call can have: the same, one more
\* column, one row fewer.
OtherShapes(shape) ==
    {shape, <<Rows(shape), Cols(shape) + 1>>}
        \cup (IF Rows(shape) > 1 THEN {<<Rows(shape) - 1, Cols(shape)>>} ELSE {})

NoTerms == [A |-> <<>>, E3 |-> <<>>, E2 |-> <<>>, C |-> <<>>, C_squared |-> -1]

NoInput == [shape |-> <<0, 0>>, shape2 |-> <<0, 0>>, luShape |-> <<0, 0>>,
            selected |-> {}, Ef |-> E_forest_default, En |-> E_nonforest_default]

Platforms == {"win32", "linux"}

NoHost == [platform |-> "unknown", cpu_count |-> 0, worker_unlinks |-> FALSE]

InputErrors == {"ValueError:open_image", "ValueError:band_number", "Error:read_band",
                "ValueError:land_use", "AssertionError:shape"}

-----------------------------------------------------------------------------
(* Initial state *)

RunInit ==
    /\ pc = "idle"
    /\ entry = "none"
    /\ err = "none"
    /\ inp = NoInput
    /\ precalc = [forest |-> NoTerms, nonforest |-> NoTerms]
    /\ precalcCalls = [forest |-> 0, nonforest |-> 0]
    /\ seg = [s \in SegNames |-> [st |-> "none", size |-> 0]]
    /\ pool = [st |-> "none", n |-> 0, taskq |-> <<>>, w |-> <<>>, res |-> <<>>,
               done |-> <<>>, rows |-> <<>>]
    /\ agg = [c |-> 1, k |-> 0, output |-> <<>>]
    /\ outFile = [created |-> FALSE, bands |-> 0]
    /\ used = <<>>
    /\ host = NoHost

Init == RunInit /\ px = PxIdle /\ ix = IxIdle

InitPixel ==
    /\ RunInit
    /\ ix = IxIdle
    /\ px \in { [pc |-> "ready", m |-> m, E |-> E, out |-> NoOutcome] :
                m \in Samples, E \in EndmemberSets }

InitIndex ==
    /\ RunInit
    /\ px = PxIdle
    /\ ix \in { [IxIdle EXCEPT !.pc = "ready", !.nir = v[1], !.red = v[2],
                                !.swir3 = v[3], !.swir2 = v[4]] :
                 v \in [1..4 -> (-MaxDN)..MaxDN] }

-----------------------------------------------------------------------------
(* Exceptions *)

\* An exception leaves batch_unmix / the helpers; under the entry point it
\* reaches the except clause (print, raise), otherwise the caller.
Raise(kind) ==
    /\ err' = kind
    /\ pc' = IF entry = "execute" THEN "except" ELSE "raised"

\* A handler that logs the error and returns normally (the raise left out).
ExceptReraise_swallowing ==
    /\ pc = "except"
    /\ pc' = "returned"
    /\ UNCHANGED <<px, ix, host, entry, err, inp, precalc, precalcCalls, seg, pool, agg, outFile, used>>

\* except Exception as e: print(...); raise
ExceptReraise ==
    /\ pc = "except"
    /\ pc' = "raised"
    /\ UNCHANGED <<px, ix, host, entry, err, inp, precalc, precalcCalls, seg, pool, agg, outFile, used>>

-----------------------------------------------------------------------------
(* execute_unmixing_with_landuse and its helpers *)

CallExecute ==
    /\ pc = "idle"
    /\ \E E \in EndmemberArgs : inp' = [inp EXCEPT !.Ef = E[1], !.En = E[2]]
    /\ entry' = "execute"
    /\ pc' = "open_image"
    /\ UNCHANGED <<px, ix, host, err, precalc, precalcCalls, seg, pool, agg, outFile, used>>

\* ds = gdal.Open(input_path); if not ds: raise ValueError
OpenImage ==
    /\ pc = "open_image"
    /\ \/ pc' = "check_bands" /\ UNCHANGED err
       \/ err' = "ValueError:open_image" /\ pc' = "except"
    /\ UNCHANGED <<px, ix, host, entry, inp, precalc, precalcCalls, seg, pool, agg, outFile, used>>

BandsValid(bands, band_count) == \A k \in 1..4 : 1 <= bands[k] /\ bands[k] <= band_count

\* the band-number loop over [nir_band, red_band, swir3_band, swir2_band]
CheckBands ==
    /\ pc = "check_bands"
    /\ \E band_count \in 1..MaxBands, bands \in [1..4 -> 0..(MaxBands + 1)] :
          IF BandsValid(bands, band_count)
          THEN pc' = "read_bands" /\ UNCHANGED err
          ELSE err' = "ValueError:band_number" /\ pc' = "except"
    /\ UNCHANGED <<px, ix, host, entry, inp, precalc, precalcCalls, seg, pool, agg, outFile, used>>

\* read_band x 4 and the two np.divide calls: ndvi and swir32 come from the
\* same dataset, so they share its shape.
ReadBands ==
    /\ pc = "read_bands"
    /\ \/ /\ \E shape \in Shapes : inp' = [inp EXCEPT !.shape = shape, !.shape2 = shape]
          /\ pc' = "select_land_use"
          /\ UNCHANGED err
       \/ /\ err' = "Error:read_band"
          /\ pc' = "except"
          /\ UNCHANGED inp
    /\ UNCHANGED <<px, ix, host, entry, precalc, precalcCalls, seg, pool, agg, outFile, used>>

\* select_land_use_values: read_land_use, then the selected codes parsed
\* from forst_value.
SelectLandUseValues ==
    /\ pc = "select_land_use"
    /\ \/ /\ \E lu \in {inp.shape, <<Rows(inp.shape) + 1, Cols(inp.shape)>>},
                sel \in SelectedChoices :
                inp' = [inp EXCEPT !.luShape = lu, !.selected = sel]
          /\ pc' = "assert_shape"
          /\ UNCHANGED err
       \/ /\ err' = "ValueError:land_use"
          /\ pc' = "except"
          /\ UNCHANGED inp
    /\ UNCHANGED <<px, ix, host, entry, precalc, precalcCalls, seg, pool, agg, outFile, used>>

\* print("...") after batch_unmix returned
ReportDone ==
    /\ pc = "print_done"
    /\ pc' = "returned"
    /\ UNCHANGED <<px, ix, host, entry, err, inp, precalc, precalcCalls, seg, pool, agg, outFile, used>>

-----------------------------------------------------------------------------
(* batch_unmix: the dispatching process *)

\* batch_unmix called directly with arrays of the caller's choosing.
CallBatch ==
    /\ pc = "idle"
    /\ \E shape \in Shapes, E \in EndmemberArgs, sel \in SelectedChoices :
         \E shape2 \in OtherShapes(shape), lu \in OtherShapes(shape) :
            inp' = [shape |-> shape, shape2 |-> shape2, luShape |-> lu,
                    selected |-> sel, Ef |-> E[1], En |-> E[2]]
    /\ entry' = "batch"
    /\ pc' = "assert_shape"
    /\ UNCHANGED <<px, ix, host, err, precalc, precalcCalls, seg, pool, agg, outFile, used>>

\* A build that drops the check (the assert removed).
shape_check_disabled(land_use_shape, ndvi_shape) == TRUE

\* land_use_array.shape == ndvi.shape
shape_check(land_use_shape, ndvi_shape) == land_use_shape = ndvi_shape

\* assert land_use_array.shape == ndvi.shape
AssertShape ==
    /\ pc = "assert_shape"
    /\ IF shape_check(inp.luShape, inp.shape)
       THEN pc' = "create_shm" /\ UNCHANGED err
       ELSE Raise("AssertionError:shape")
    /\ UNCHANGED <<px, ix, host, entry, inp, precalc, precalcCalls, seg, pool, agg, outFile, used>>

SegOrder == <<"band1", "band2", "land_use">>

SegShape(s) == IF s = "band1" THEN inp.shape
               ELSE IF s = "band2" THEN inp.shape2 ELSE inp.luShape

\* The first n of the three SharedMemory(create=True, size=array.nbytes).
SegsCreated(n) ==
    [s \in SegNames |->
        IF \E k \in 1..n : SegOrder[k] = s
        THEN [st |-> "open", size |-> NumElems(SegShape(s))]
        ELSE seg[s]]

\* The three segments created and filled; a creation can fail (OSError)
\* after the ones before it succeeded.
CreateSharedMemory ==
    /\ pc = "create_shm"
    /\ \/ /\ seg' = SegsCreated(3)
          /\ pc' = "precalc_forest"
          /\ UNCHANGED err
       \/ /\ \E n \in 0..2 : seg' = SegsCreated(n)
          /\ Raise("OSError:shm")
    /\ UNCHANGED <<px, ix, host, entry, inp, precalc, precalcCalls, pool, agg, outFile>>
    /\ UNCHANGED used

\* A copy-and-paste slip: the forest set precomputed a second time.
PrecalcNonforest_forest_again ==
    /\ pc = "precalc_nonforest"
    /\ IF WellFormed(inp.Ef)
       THEN /\ precalc' = [precalc EXCEPT !.nonforest = get_precalc(inp.Ef)]
            /\ precalcCalls' = [precalcCalls EXCEPT !.forest = @ + 1]
            /\ pc' = "create_output"
            /\ UNCHANGED err
       ELSE /\ Raise("IndexError:precalc")
            /\ UNCHANGED <<precalc, precalcCalls>>
    /\ UNCHANGED <<px, ix, host, entry, inp, seg, pool, agg, outFile, used>>

\* precalc_forest = get_precalc(E_forest)
PrecalcForest ==
    /\ pc = "precalc_forest"
    /\ IF WellFormed(inp.Ef)
       THEN /\ precalc' = [precalc EXCEPT !.forest = get_precalc(inp.Ef)]
            /\ precalcCalls' = [precalcCalls EXCEPT !.forest = @ + 1]
            /\ pc' = "precalc_nonforest"
            /\ UNCHANGED err
       ELSE /\ Raise("IndexError:precalc")
            /\ UNCHANGED <<precalc, precalcCalls>>
    /\ UNCHANGED <<px, ix, host, entry, inp, seg, pool, agg, outFile, used>>

\* precalc_nonforest = get_precalc(E_nonforest)
PrecalcNonforest ==
    /\ pc = "precalc_nonforest"
    /\ IF WellFormed(inp.En)
       THEN /\ precalc' = [precalc EXCEPT !.nonforest = get_precalc(inp.En)]
            /\ precalcCalls' = [precalcCalls EXCEPT !.nonforest = @ + 1]
            /\ pc' = "create_output"
            /\ UNCHANGED err
       ELSE /\ Raise("IndexError:precalc")
            /\ UNCHANGED <<precalc, precalcCalls>>
    /\ UNCHANGED <<px, ix, host, entry, inp, seg, pool, agg, outFile, used>>

\* ds_out = driver.Create(output_path, ...); SetGeoTransform; SetProjection.
\* Create returns None when the file cannot be created, and the next line
\* raises AttributeError.
CreateOutput ==
    /\ pc = "create_output"
    /\ \/ /\ outFile' = [outFile EXCEPT !.created = TRUE]
          /\ pc' = "start_pool"
          /\ UNCHANGED err
       \/ /\ Raise("AttributeError:output")
          /\ UNCHANGED outFile
    /\ UNCHANGED <<px, ix, host, entry, inp, precalc, precalcCalls, seg, pool, agg, used>>

NumChunks(h) == (h + ChunkSize - 1) \div ChunkSize

\* Number of rows in chunk c of range(h).
ChunkLen(c, h) == IF c * ChunkSize <= h THEN ChunkSize ELSE h - (c - 1) * ChunkSize

\* Row index of the k-th task (k >= 1) of chunk c: args is built over range(shape[0]).
RowAt(c, k) == (c - 1) * ChunkSize + (k - 1)

\* mp.Pool(mp.cpu_count() // 2)
pool_size(cpu_count) == cpu_count \div 2

\* with mp.Pool(mp.cpu_count()//2) as pool: results = pool.imap(..., chunksize=10);
\* output = np.empty(...).  Pool(0) raises ValueError.
StartPool ==
    /\ pc = "start_pool"
    /\ \E cpu_count \in 1..MaxCpu, platform \in Platforms :
         /\ host' = [host EXCEPT !.platform = platform, !.cpu_count = cpu_count]
         /\ IF pool_size(cpu_count) >= 1
            THEN /\ pool' = [st |-> "running", n |-> pool_size(cpu_count),
                             taskq |-> [c \in 1..NumChunks(Rows(inp.shape)) |-> c],
                             w |-> [x \in 1..pool_size(cpu_count) |-> [c |-> 0, k |-> 0]],
                             res |-> [c \in 1..NumChunks(Rows(inp.shape)) |-> "pending"],
                             done |-> <<>>,
                             rows |-> [i \in 1..Rows(inp.shape) |-> <<>>]]
                 /\ agg' = [c |-> 1, k |-> 0, output |-> [i \in 1..Rows(inp.shape) |-> <<>>]]
                 /\ used' = [i \in 1..Rows(inp.shape) |-> <<>>]
                 /\ pc' = "collect"
                 /\ UNCHANGED err
            ELSE /\ Raise("ValueError:pool")
                 /\ UNCHANGED <<pool, agg, used>>
    /\ UNCHANGED <<px, ix, entry, inp, precalc, precalcCalls, seg, outFile>>

\* A slip in the store: the row placed at its position within its chunk
\* instead of the row index the worker returned.
Collect_position_in_chunk ==
    /\ pc = "collect"
    /\ agg.c <= NumChunks(Rows(inp.shape))
    /\ pool.res[agg.c] = "ok"
    /\ LET i == RowAt(agg.c, agg.k + 1)
           last == agg.k + 1 = ChunkLen(agg.c, Rows(inp.shape))
       IN  agg' = [c |-> IF last THEN agg.c + 1 ELSE agg.c,
                   k |-> IF last THEN 0 ELSE agg.k + 1,
                   output |-> [agg.output EXCEPT ![agg.k + 1] = pool.rows[i + 1]]]
    /\ UNCHANGED <<px, ix, host, pc, entry, err, inp, precalc, precalcCalls, seg, pool, outFile, used>>

\* One iteration of "for i, row_data in results": the next item of the imap
\* iterator is the next row of the first chunk not yet consumed.
\* output[:, i, :] = row_data
Collect ==
    /\ pc = "collect"
    /\ agg.c <= NumChunks(Rows(inp.shape))
    /\ pool.res[agg.c] = "ok"
    /\ LET i == RowAt(agg.c, agg.k + 1)
           last == agg.k + 1 = ChunkLen(agg.c, Rows(inp.shape))
       IN  agg' = [c |-> IF last THEN agg.c + 1 ELSE agg.c,
                   k |-> IF last THEN 0 ELSE agg.k + 1,
                   output |-> [agg.output EXCEPT ![i + 1] = pool.rows[i + 1]]]
    /\ UNCHANGED <<px, ix, host, pc, entry, err, inp, precalc, precalcCalls, seg, pool, outFile, used>>

\* A slip: the failed chunk skipped instead of raised.
CollectFailure_skipping ==
    /\ pc = "collect"
    /\ agg.c <= NumChunks(Rows(inp.shape))
    /\ pool.res[agg.c] = "failed"
    /\ agg' = [agg EXCEPT !.c = @ + 1, !.k = 0]
    /\ UNCHANGED <<px, ix, host, pc, entry, err, inp, precalc, precalcCalls, seg, pool, outFile, used>>

\* The next chunk failed in its worker: the iterator re-raises the worker's
\* exception, the with block terminates the pool on the way out.
CollectFailure ==
    /\ pc = "collect"
    /\ agg.c <= NumChunks(Rows(inp.shape))
    /\ pool.res[agg.c] = "failed"
    /\ pool' = [pool EXCEPT !.st = "terminated"]
    /\ Raise("WorkerFailure")
    /\ UNCHANGED <<px, ix, host, entry, inp, precalc, precalcCalls, seg, agg, outFile, used>>

\* The iterator is exhausted: the with block ends, Pool.__exit__ terminates.
ExitPool ==
    /\ pc = "collect"
    /\ agg.c > NumChunks(Rows(inp.shape))
    /\ pool' = [pool EXCEPT !.st = "terminated"]
    /\ pc' = "write"
    /\ UNCHANGED <<px, ix, host, entry, err, inp, precalc, precalcCalls, seg, agg, outFile, used>>

\* for b in range(3): ds_out.GetRasterBand(b+1).WriteArray(output[b])
WriteBand ==
    /\ pc = "write"
    /\ \/ /\ outFile' = [outFile EXCEPT !.bands = @ + 1]
          /\ pc' = IF outFile.bands + 1 = 3 THEN "cleanup" ELSE "write"
          /\ UNCHANGED err
       \/ /\ Raise("Error:write")
          /\ UNCHANGED outFile
    /\ UNCHANGED <<px, ix, host, entry, inp, precalc, precalcCalls, seg, pool, agg, used>>

\* close() and unlink() of the three segments, ds_out = None, gc.collect()
Cleanup ==
    /\ pc = "cleanup"
    /\ seg' = [s \in SegNames |-> [seg[s] EXCEPT !.st = "unlinked"]]
    /\ pc' = IF entry = "execute" THEN "print_done" ELSE "returned"
    /\ UNCHANGED <<px, ix, host, entry, err, inp, precalc, precalcCalls, pool, agg, outFile, used>>

-----------------------------------------------------------------------------
(* process_row_enhanced: the workers *)

\* np.ndarray(land_use_shape, dtype, buffer=shm.buf) raises TypeError when
\* the segment is smaller than the array asked for.
buffers_fit == \A s \in SegNames : seg[s].size >= NumElems(inp.luShape)

\* band1[i, j]: the band1 segment viewed with land_use_shape.
band1_at(i, j) ==
    LET p == i * Cols(inp.luShape) + j
    IN  TileAt(ndvi_tile, p \div Cols(inp.shape), p % Cols(inp.shape))

\* band2[i, j]: the band2 segment (swir32, laid out row by row with its own
\* width) viewed with land_use_shape.
band2_at(i, j) ==
    LET p == i * Cols(inp.luShape) + j
    IN  TileAt(swir32_tile, p \div Cols(inp.shape2), p % Cols(inp.shape2))

land_use_at(i, j) == TileAt(land_use_tile, i, j)

\* A slip: the membership test inverted.
is_forest_inverted(i, j) == land_use_at(i, j) \notin inp.selected

\* is_forest = land_use[i, j] in selected_values
is_forest(i, j) == land_use_at(i, j) \in inp.selected

TermsFor(i, j) == IF is_forest(i, j) THEN "forest" ELSE "nonforest"

\* A slip in the row index: every row computed from row 0 of the bands.
pixel_sample_row0(i, j) == <<band1_at(0, j), band2_at(0, j)>>

\* m = np.array([band1[i, j], band2[i, j]])
pixel_sample(i, j) == <<band1_at(i, j), band2_at(i, j)>>

\* res of pixel (i, j): unmix_pixel with the term set the land use selects.
pixel_results(i, j) ==
    { o.res : o \in unmix_pixel(pixel_sample(i, j), precalc[TermsFor(i, j)]) }

\* The row_result values process_row_enhanced can return for row i, column
\* j + 1 of the sequence holding row_result[:, j].
row_results(i) ==
    LET w == Cols(inp.luShape)
        cand == UNION { pixel_results(i, j) : j \in 0..(w - 1) }
    IN  { r \in [1..w -> cand] : \A j \in 1..w : r[j] \in pixel_results(i, j - 1) }

\* A worker takes the next chunk of the task queue.
TakeChunk(w) ==
    /\ pool.st = "running"
    /\ pool.w[w].c = 0
    /\ pool.taskq # <<>>
    /\ pool' = [pool EXCEPT !.w[w] = [c |-> Head(pool.taskq), k |-> 0],
                            !.taskq = Tail(pool.taskq)]
    /\ UNCHANGED <<px, ix, host, pc, entry, err, inp, precalc, precalcCalls, seg, agg, outFile, used>>

\* The chunk of worker w ends with an exception: its result is the exception.
ChunkFailed(w) ==
    [pool EXCEPT !.res[pool.w[w].c] = "failed", !.done = Append(@, pool.w[w].c),
                 !.w[w] = [c |-> 0, k |-> 0]]

\* The finally block of process_row_enhanced: the worker closes its three
\* handles and, under win32, calls unlink() on each segment. The call is
\* recorded; the segment itself stays (SharedMemory.unlink acts on POSIX
\* only, and the dispatcher still holds its handle).
WorkerFinally ==
    host' = [host EXCEPT !.worker_unlinks = @ \/ (host.platform = "win32")]

\* process_row_enhanced on the next row of the worker's chunk.
ProcessRow(w) ==
    /\ pool.st = "running"
    /\ pool.w[w].c # 0
    /\ LET c == pool.w[w].c
           i == RowAt(c, pool.w[w].k + 1)
           last == pool.w[w].k + 1 = ChunkLen(c, Rows(inp.shape))
       IN  IF buffers_fit
           THEN /\ \E r \in row_results(i) :
                      pool' = [pool EXCEPT
                                 !.rows[i + 1] = r,
                                 !.res[c] = IF last THEN "ok" ELSE @,
                                 !.done = IF last THEN Append(@, c) ELSE @,
                                 !.w[w] = IF last THEN [c |-> 0, k |-> 0]
                                          ELSE [c |-> c, k |-> pool.w[w].k + 1]]
                /\ used' = [used EXCEPT ![i + 1] =
                              [j \in 1..Cols(inp.luShape) |-> TermsFor(i, j - 1)]]
           ELSE /\ pool' = ChunkFailed(w)
                /\ UNCHANGED used
    /\ WorkerFinally
    /\ UNCHANGED <<px, ix, pc, entry, err, inp, precalc, precalcCalls, seg, agg, outFile>>

\* Any other exception while a row is processed: before the try block (a
\* segment that cannot be attached) or inside it (MemoryError, an error of
\* the solver), where the finally block runs.
RowRaises(w) ==
    /\ pool.st = "running"
    /\ pool.w[w].c # 0
    /\ pool' = ChunkFailed(w)
    /\ \/ UNCHANGED host
       \/ WorkerFinally
    /\ UNCHANGED <<px, ix, pc, entry, err, inp, precalc, precalcCalls, seg, agg, outFile, used>>

\* The process of worker w dies while it holds a chunk (killed by the
\* system, a crash in native code): no result and no exception is sent for
\* the chunk, the finally block does not run, and the pool starts a new
\* process in its place.
WorkerDies(w) ==
    /\ pool.st = "running"
    /\ pool.w[w].c # 0
    /\ pool' = [pool EXCEPT !.w[w] = [c |-> 0, k |-> 0]]
    /\ UNCHANGED <<px, ix, host, pc, entry, err, inp, precalc, precalcCalls, seg, agg, outFile, used>>

-----------------------------------------------------------------------------
(* Specifications *)

Workers == 1..pool_size(MaxCpu)

Next ==
    \/ CallExecute
    \/ OpenImage
    \/ CheckBands
    \/ ReadBands
    \/ SelectLandUseValues
    \/ ExceptReraise
    \/ ReportDone
    \/ CallBatch
    \/ AssertShape
    \/ CreateSharedMemory
    \/ PrecalcForest
    \/ PrecalcNonforest
    \/ CreateOutput
    \/ StartPool
    \/ Collect
    \/ CollectFailure
    \/ ExitPool
    \/ WriteBand
    \/ Cleanup
    \/ \E w \in Workers : w <= pool.n /\ TakeChunk(w)
    \/ \E w \in Workers : w <= pool.n /\ ProcessRow(w)
    \/ \E w \in Workers : w <= pool.n /\ RowRaises(w)

Spec == Init /\ [][Next]_vars

\* A run in which worker processes can die.
NextCrash ==
    \/ Next
    \/ \E w \in Workers : w <= pool.n /\ WorkerDies(w)

SpecCrash == Init /\ [][NextCrash]_vars

NextPixel == UnmixPixelCall

SpecPixel == InitPixel /\ [][NextPixel]_vars

NextIndex == ComputeIndices

SpecIndex == InitIndex /\ [][NextIndex]_vars

-----------------------------------------------------------------------------
(* Properties of unmix_pixel, checked under SpecPixel *)

FractionSum(res) == res[1] + res[2] + res[3]

\* C1: unmix_pixel returns exactly 3 components, each >= 0, whose sum after
\* rounding to 3 decimals is within 0.001 of 1, for every sample of the grid
\* and every endmember set, in the interior and in the boundary branch.
C1_FractionsNonNegativeSumNearOne ==
    px.pc = "done" =>
        /\ Len(px.out.res) = 3
        /\ \A k \in 1..3 : px.out.res[k] >= 0
        /\ FractionSum(px.out.res) >= Milli - 1
        /\ FractionSum(px.out.res) <= Milli + 1

\* An interior result whose rounded components sum to 0.999.
C1_Witness ==
    /\ px.pc = "done"
    /\ px.out.branch = "interior"
    /\ px.out.res[1] > 0 /\ px.out.res[2] > 0
    /\ FractionSum(px.out.res) = Milli - 1

\* C8: in the boundary branch with C_squared < 1e-10, x_clamped is exactly 0.5
\* (result [0.5, 0.5, 0]) and the division by C_squared is not evaluated.
C8_DegenerateBoundaryIsHalf ==
    (px.pc = "done" /\ px.out.branch = "boundary" /\ Col(px.E, 1) = Col(px.E, 2)) =>
        /\ px.out.res = <<Milli \div 2, Milli \div 2, 0>>
        /\ ~px.out.divided

C8_Witness ==
    /\ px.pc = "done"
    /\ px.out.branch = "boundary"
    /\ px.E = E_degenerate
    /\ get_precalc(px.E).C_squared = 0

\* The solver results of the evaluated pixel.
PxSolutions == lsq_linear(get_precalc(px.E).A, Sub(px.m, Col(px.E, 3)))

\* Numerator of clamp(-(C . (e1 - sample)) / C_squared, 0, 1) over C_squared.
ClampNumerator(E, m) ==
    LET C == Sub(Col(E, 1), Col(E, 2))
        q == -Dot(C, Sub(Col(E, 2), m))
    IN  IF q <= 0 THEN 0 ELSE IF q >= Dot(C, C) THEN Dot(C, C) ELSE q

\* round([x, y, f3], 3) for the solver result z.
InteriorResult(z) ==
    <<np_round(z.xn, z.d), np_round(z.yn, z.d), np_round(z.d - z.xn - z.yn, z.d)>>

\* round([xc, 1 - xc, 0], 3) with xc the clamped quotient; the quotient
\* exists only for C_squared # 0.
QuotientResult(E, m) ==
    LET Csq == get_precalc(E).C_squared
        n == ClampNumerator(E, m)
    IN  <<np_round(n, Csq), np_round(Csq - n, Csq), 0>>

\* C13 as stated: the branch is chosen by the exact test f3 >= 0 on the solver
\* result; if it holds the result is round([x, y, f3], 3), otherwise it is
\* round([xc, 1 - xc, 0], 3) with xc the clamped quotient by C_squared.
C13_BranchByExactTest_AsStated ==
    px.pc = "done" =>
        \E z \in PxSolutions :
            IF z.d - z.xn - z.yn >= 0
            THEN px.out.branch = "interior" /\ px.out.res = InteriorResult(z)
            ELSE /\ px.out.branch = "boundary"
                 /\ get_precalc(px.E).C_squared # 0
                 /\ px.out.res = QuotientResult(px.E, px.m)

\* C13 amended: as stated, with xc the clamped quotient when C_squared >=
\* 1e-10 and xc = 0.5 otherwise; in the boundary branch the third component
\* is 0 and xc + (1 - xc) is exactly 1 before rounding.
C13_BranchByExactTest ==
    px.pc = "done" =>
        \E z \in PxSolutions :
            IF z.d - z.xn - z.yn >= 0
            THEN px.out.branch = "interior" /\ px.out.res = InteriorResult(z)
            ELSE /\ px.out.branch = "boundary"
                 /\ px.out.res[3] = 0
                 /\ IF AtLeastEps(get_precalc(px.E).C_squared)
                    THEN /\ px.out.res = QuotientResult(px.E, px.m)
                         /\ ClampNumerator(px.E, px.m)
                              + (get_precalc(px.E).C_squared - ClampNumerator(px.E, px.m))
                                = get_precalc(px.E).C_squared
                    ELSE px.out.res = <<Milli \div 2, Milli \div 2, 0>>

\* A boundary result for a solver result whose f3 lies in [-0.01, 0), with
\* endmembers that are not degenerate.
C13_Witness ==
    /\ px.pc = "done"
    /\ px.out.branch = "boundary"
    /\ get_precalc(px.E).C_squared > 0
    /\ \E z \in PxSolutions :
          /\ z.d - z.xn - z.yn < 0
          /\ 100 * (z.d - z.xn - z.yn) >= -z.d

-----------------------------------------------------------------------------
(* Properties of the index computation, checked under SpecIndex *)

\* C14: a pixel whose NDVI denominator NIR + Red is zero gets NDVI set to
\* NaN, and a pixel whose SWIR2 value is zero gets the SWIR32 ratio set to NaN.
C14_ZeroDenominatorIsNaN ==
    ix.pc = "done" =>
        /\ ix.nir + ix.red = 0 => ix.ndvi.nan
        /\ ix.swir2 = 0 => ix.swir32.nan

-----------------------------------------------------------------------------
(* Properties of a run, checked under Spec *)

H == Rows(inp.shape)

Ended == pc \in {"raised", "returned"}

SegsReleased == \A s \in SegNames : seg[s].st \in {"none", "unlinked"}

PoolReleased == pool.st \in {"none", "terminated"}

NoParallelWork == (\A s \in SegNames : seg[s].st = "none") /\ pool.st = "none"

AllRowsStored == \A i \in 1..H : agg.output[i] # <<>>

\* batch_unmix has been entered (the errors of the helpers before it excluded).
BatchEntered ==
    /\ pc \notin {"idle", "open_image", "check_bands", "read_bands", "select_land_use"}
    /\ err \notin {"ValueError:open_image", "ValueError:band_number", "Error:read_band",
                   "ValueError:land_use"}

ShapesDiffer == inp.shape2 # inp.shape \/ inp.luShape # inp.shape

\* The failures of batch_unmix the claim C2 lists.
ListedFailures == {"IndexError:precalc", "AttributeError:output", "WorkerFailure", "Error:write"}

\* C2: the three shared-memory segments and the worker pool are released
\* before batch_unmix returns or raises (here: for arrays of one shape), on
\* the success path and on a failure in precomputation, in output-file
\* creation, in a worker row or in writing the bands.
C2_ReleasedOnEveryPath ==
    (Ended /\ ~ShapesDiffer /\ err \in ListedFailures \cup {"none"}) =>
        (SegsReleased /\ PoolReleased)

\* C3: when a worker failure reaches the caller (here: for arrays of one
\* shape), no output raster has been created or written at output_path by
\* this run.
C3_NoOutputOnWorkerFailure ==
    (pc = "raised" /\ ~ShapesDiffer /\ err = "WorkerFailure") =>
        (~outFile.created /\ outFile.bands = 0)

\* C4: if band1, band2 and landUse do not all have the same shape, batch_unmix
\* fails with the shape error before any shared buffer is created and before
\* any row is dispatched, for a mismatch of band2 as for one of landUse.
C4_ShapeMismatchFailsBeforeDispatch ==
    (BatchEntered /\ ShapesDiffer) =>
        /\ NoParallelWork
        /\ pc \in {"assert_shape", "except", "raised"}
        /\ Ended => err = "AssertionError:shape"

\* The fractions of input pixel (i, j): the sample the three buffers hold at
\* (i, j), unmixed with the terms of the set its land-use code selects.
ExpectedPixel(i, j) ==
    LET E == IF TileAt(land_use_tile, i, j) \in inp.selected THEN inp.Ef ELSE inp.En
    IN  { o.res : o \in unmix_pixel(<<band1_at(i, j), band2_at(i, j)>>, get_precalc(E)) }

\* C5: whatever the order in which the workers complete the chunks, row i of
\* the output holds the result computed for input row i: every stored row does,
\* and every row is stored once the collection loop has ended.
C5_RowsAssembledByIndex ==
    /\ pool.st # "none" =>
          \A i \in 1..H : agg.output[i] # <<>> =>
              \A j \in 1..Cols(inp.luShape) : agg.output[i][j] \in ExpectedPixel(i - 1, j - 1)
    /\ pc \in {"write", "cleanup", "print_done", "returned"} => AllRowsStored

\* A finished run of two chunks whose second chunk completed first.
C5_Witness ==
    /\ pc = "returned"
    /\ pool.done = <<2, 1>>
    /\ AllRowsStored
    /\ agg.output[1] # agg.output[2]

\* C6: a band is written only after a result for every row index is stored,
\* and a run whose pool has drained with a row missing fails without writing.
C6_NoWriteWithMissingRows ==
    /\ outFile.bands > 0 => AllRowsStored
    /\ (pool.st = "terminated" /\ ~AllRowsStored) => (err # "none" /\ outFile.bands = 0)

\* All bands written from a complete output array of several rows.
C6_Witness ==
    /\ pc = "returned"
    /\ outFile.bands = 3
    /\ H >= 2
    /\ AllRowsStored

\* C7: a pixel is unmixed with the forest terms if and only if its land-use
\* code is a selected value, and with the non-forest terms otherwise.
C7_LandUseGating ==
    \A i \in 1..Len(used) : used[i] # <<>> =>
        \A j \in 1..Len(used[i]) :
            /\ used[i][j] = "forest" <=> TileAt(land_use_tile, i - 1, j - 1) \in inp.selected
            /\ used[i][j] = "nonforest" <=> TileAt(land_use_tile, i - 1, j - 1) \notin inp.selected
            /\ pool.rows[i][j] \in
                  { o.res : o \in unmix_pixel(<<band1_at(i - 1, j - 1), band2_at(i - 1, j - 1)>>,
                                              precalc[used[i][j]]) }

\* One row with a forest pixel and a non-forest pixel whose fractions differ.
C7_Witness ==
    \E i \in 1..Len(used) :
        /\ Len(used[i]) >= 2
        /\ used[i][1] = "forest"
        /\ used[i][2] = "nonforest"
        /\ pool.rows[i][1] # pool.rows[i][2]

\* C9: under execute_unmixing_with_landuse every input error (image cannot be
\* opened, band number out of range, land use unreadable, shape mismatch) is
\* raised with no shared-memory segment created, no pool started and no row
\* dispatched; a land-use array of another shape never gets past the check.
C9_InputErrorsBeforeParallelWork ==
    entry = "execute" =>
        /\ err \in InputErrors => NoParallelWork
        /\ (BatchEntered /\ inp.luShape # inp.shape) =>
              (NoParallelWork /\ pc \in {"assert_shape", "except", "raised"})
        /\ (BatchEntered /\ inp.luShape # inp.shape /\ Ended) => err = "AssertionError:shape"

\* The shape mismatch reached the caller of the entry point.
C9_Witness ==
    /\ entry = "execute"
    /\ pc = "raised"
    /\ err = "AssertionError:shape"
    /\ inp.luShape # inp.shape

\* C10: the precomputed terms are computed exactly once for the forest set and
\* once for the non-forest set, both before the first pixel is evaluated, and
\* no row processing changes them.
C10_PrecalcOncePerSet ==
    /\ [](/\ precalcCalls.forest <= 1
          /\ precalcCalls.nonforest <= 1
          /\ pool.st # "none" =>
                /\ precalcCalls = [forest |-> 1, nonforest |-> 1]
                /\ precalc.forest = get_precalc(inp.Ef)
                /\ precalc.nonforest = get_precalc(inp.En))
    /\ [][pool.st # "none" => UNCHANGED <<precalc, precalcCalls>>]_vars

\* A finished run: every pixel evaluated, each set precomputed once.
C10_Witness ==
    /\ pc = "returned"
    /\ AllRowsStored
    /\ precalcCalls = [forest |-> 1, nonforest |-> 1]
    /\ precalc.forest # precalc.nonforest

\* The worker and resource failures of batch_unmix.
BatchFailures == {"OSError:shm", "AttributeError:output", "ValueError:pool",
                  "WorkerFailure", "Error:write"}

\* C11: a worker failure or a resource failure during batch_unmix reaches the
\* caller of execute_unmixing_with_landuse as an exception: once it is raised
\* the entry point is in its except clause or has re-raised (it never prints
\* the completion message and never returns), the exception stays the same,
\* and nothing is run again: the pool, the task queue, the row results, the
\* output array, the segments and the raster are left as the failure left them.
C11_FailurePropagatesNoRetry ==
    /\ []((entry = "execute" /\ err \in BatchFailures) => pc \in {"except", "raised"})
    /\ []((entry = "execute" /\ pc = "except") => ENABLED ExceptReraise)
    /\ [][(entry = "execute" /\ err \in BatchFailures) =>
              /\ pc' = "raised"
              /\ UNCHANGED <<entry, err, inp, precalc, precalcCalls, seg, pool, agg, outFile, used>>]_vars

\* A worker failure re-raised by the entry point after some rows were stored.
C11_Witness ==
    /\ entry = "execute"
    /\ pc = "raised"
    /\ err = "WorkerFailure"
    /\ \E i \in 1..H : agg.output[i] # <<>>

\* The tasks (chunk, position) of args that carry row index i.
TasksOfRow(i) ==
    { t \in (1..NumChunks(H)) \X (1..ChunkSize) :
        t[2] <= ChunkLen(t[1], H) /\ RowAt(t[1], t[2]) = i }

\* The places chunk c is at: the task queue, a worker, the results.
PlacesOfChunk(c) ==
    Cardinality({ k \in 1..Len(pool.taskq) : pool.taskq[k] = c })
        + Cardinality({ w \in 1..pool.n : pool.w[w].c = c })
        + (IF pool.res[c] # "pending" THEN 1 ELSE 0)

\* C12: in a run over H rows each row index 0..H-1 is dispatched as exactly
\* one task and its chunk is held by one place at a time; the output array
\* changes only in a step of the dispatching process, which stores the row
\* the iterator returned at that row's index, into a row not stored before;
\* a step of a worker changes neither the segments, the inputs nor the output.
C12_SingleWriterPerRow ==
    /\ [](pool.st # "none" =>
            /\ \A i \in 0..(H - 1) : Cardinality(TasksOfRow(i)) = 1
            /\ \A c \in 1..NumChunks(H) : PlacesOfChunk(c) = 1)
    /\ []((pool.st # "none" /\ pc # "collect") => (AllRowsStored \/ err # "none"))
    /\ [][(pool.st # "none" /\ agg.output' # agg.output) =>
              /\ pc = "collect"
              /\ pool' = pool
              /\ LET i == RowAt(agg.c, agg.k + 1)
                 IN  /\ agg.output[i + 1] = <<>>
                     /\ agg.output' = [agg.output EXCEPT ![i + 1] = pool.rows[i + 1]]]_vars
    /\ [][(pool.st = "running" /\ pool' # pool /\ pool'.st = "running") =>
              UNCHANGED <<seg, inp, agg, outFile>>]_vars

\* A finished run of two chunks on two workers, every row stored.
C12_Witness ==
    /\ pc = "returned"
    /\ H > ChunkSize
    /\ pool.n >= 2
    /\ AllRowsStored

\* C15: for every number n >= 1 of logical cores the machine reports, once
\* batch_unmix has come to the pool the pool exists with at least one worker
\* (the pool size n // 2 is not 0) and no pool error is raised.
C15_PoolHasAWorker ==
    host.cpu_count >= 1 =>
        /\ pool_size(host.cpu_count) >= 1
        /\ pool.st # "none" /\ pool.n >= 1
        /\ err # "ValueError:pool"

C17_RunNeverBlocks == Ended \/ ENABLED NextCrash

\* The same for runs in which no worker process dies.
NoHaltWithoutCrash == Ended \/ ENABLED Next

====
